---- MODULE Spec2Model ----
(***************************************************************************)
(* Model of the dependency visualizer (src/index.js): the recursive        *)
(* resolver getDependencies, the serializer generateDotGraph, the render   *)
(* pipeline generateImageFromDot and the top-level run.                    *)
(*                                                                         *)
(* Strings are TLA+ strings; template literals are modelled with \o.       *)
(* The registry and the two external tools are the environment.            *)
(***************************************************************************)
EXTENDS Integers, Sequences, FiniteSets, TLC

VARIABLES
    registry,      \* environment: package name -> the registry's response
    stack,         \* activation records of getDependencies, innermost last
    calls,         \* history: one record per getDependencies call made
    requests,      \* history: the axios.get requests issued, in order
    inflight,      \* the requests issued and not yet answered
    outcome,       \* settlement of the promise of the outermost getDependencies call
    log,           \* console output, in order
    config,        \* the configuration record of the run
    mainPc,        \* position of the calling flow (the IIFE, or a direct caller)
    dependencies,  \* the caller's `dependencies` (index.js:102)
    dotGraph,      \* the caller's `dotGraph` (index.js:109)
    gen,           \* activation of generateImageFromDot
    fs,            \* file system: path -> content
    effects,       \* history: file writes and exec invocations, in order
    procs          \* the external processes started by exec, in order

vars == <<registry, stack, calls, requests, inflight, outcome, log, config,
          mainPc, dependencies, dotGraph, gen, fs, effects, procs>>

resolverVars == <<stack, calls, requests, inflight, outcome>>
renderVars == <<gen, fs, effects, procs>>

----------------------------------------------------------------------------
(* Bounds and input sets *)

\* Largest maxDepth a run is configured with.
MaxDepthBound == 2

\* Largest number of fields of a response's `dependencies` object.
MaxDeps == 2

\* The package names of the registry.
Names == {"dep1", "dep2", "7"}

\* The package a run starts from.
RootName == "7"

undefined == "<undefined>"

RepositoryUrl == "https://api.example.com"

Min(a, b) == IF a < b THEN a ELSE b

\* The field lists a `dependencies` object can have: distinct keys, in the
\* order they are written in the response body.
FieldLists ==
    { s \in UNION { [1..n -> Names] : n \in 0..Min(MaxDeps, Cardinality(Names)) } :
        \A i, j \in DOMAIN s : i # j => s[i] # s[j] }

\* What the registry answers for one package: the request fails (axios.get
\* rejects, or response.data is null and line 28 throws), or it succeeds with
\* a body that has no `dependencies` field, or with one that has it.
Responses ==
    { [ok |-> FALSE, hasDependencies |-> FALSE, fields |-> <<>>],
      [ok |-> TRUE, hasDependencies |-> FALSE, fields |-> <<>>] }
    \cup { [ok |-> TRUE, hasDependencies |-> TRUE, fields |-> f] : f \in FieldLists }

----------------------------------------------------------------------------
(* JavaScript helpers *)

Digits == <<"0", "1", "2", "3", "4", "5", "6", "7", "8", "9">>

CharAt(s, i) == SubSeq(s, i, i)

IsDigit(c) == \E d \in DOMAIN Digits : Digits[d] = c

DigitValue(c) == (CHOOSE d \in DOMAIN Digits : Digits[d] = c) - 1

RECURSIVE ToNumber(_)
ToNumber(s) ==
    IF Len(s) = 0 THEN 0
    ELSE 10 * ToNumber(SubSeq(s, 1, Len(s) - 1)) + DigitValue(CharAt(s, Len(s)))

\* A property key that is a canonical array index (a decimal numeral without
\* leading zero, below 2^32 - 1): own-property enumeration lists these first,
\* in ascending numeric order. Numerals of up to 9 digits are all in range;
\* longer names do not occur in Names.
IsArrayIndex(s) ==
    /\ Len(s) >= 1
    /\ Len(s) <= 9
    /\ \A i \in 1..Len(s) : IsDigit(CharAt(s, i))
    /\ (Len(s) > 1 => CharAt(s, 1) # "0")

RECURSIVE SortByIndex(_)
SortByIndex(S) ==
    IF S = {} THEN <<>>
    ELSE LET m == CHOOSE x \in S : \A y \in S : ToNumber(x) <= ToNumber(y)
         IN  <<m>> \o SortByIndex(S \ {m})

ObjectEntriesInFieldOrder(fields) == fields

\* The key order of Object.entries(dependencies) for an object parsed from a
\* body whose fields are written in the order `fields`.
ObjectEntries(fields) ==
    SortByIndex({ fields[i] : i \in { j \in DOMAIN fields : IsArrayIndex(fields[j]) } })
    \o SelectSeq(fields, LAMBDA k : ~IsArrayIndex(k))

Url(repositoryUrl, packageName) == repositoryUrl \o "/" \o packageName \o "/latest"

\* The environment answers a URL with the response of the package it names.
Answer(url) ==
    registry[CHOOSE p \in Names : \E c \in DOMAIN calls : Url(calls[c].repositoryUrl, p) = url]

----------------------------------------------------------------------------
(* getDependencies, index.js:23-40 *)

Frame(packageName, depth, maxDepth, repositoryUrl, call) ==
    [packageName |-> packageName, depth |-> depth, maxDepth |-> maxDepth,
     repositoryUrl |-> repositoryUrl, call |-> call, pc |-> "entry",
     entries |-> <<>>, i |-> 1, result |-> <<>>]

CallRecord(packageName, depth, maxDepth, repositoryUrl, parent, index) ==
    [packageName |-> packageName, depth |-> depth, maxDepth |-> maxDepth,
     repositoryUrl |-> repositoryUrl, parent |-> parent, index |-> index,
     returned |-> FALSE, value |-> <<>>]

Top == stack[Len(stack)]

DepthExceededOffByOne(depth, maxDepth) == depth > maxDepth + 1

DepthExceededNever(depth, maxDepth) == FALSE

\* index.js:24
DepthExceeded(depth, maxDepth) == depth > maxDepth

\* `return value` of the innermost call: the awaiting parent stores the node
\* (line 33) and moves to its next entry; the outermost call fulfils its promise.
ReturnValue(value) ==
    LET n == Len(stack) IN
    /\ calls' = [calls EXCEPT ![Top.call].returned = TRUE, ![Top.call].value = value]
    /\ IF n = 1
       THEN /\ stack' = <<>>
            /\ outcome' = [state |-> "fulfilled", value |-> value]
       ELSE LET parent == stack[n - 1]
                node == [name |-> parent.entries[parent.i], dependencies |-> value]
            IN  /\ stack' = Append(SubSeq(stack, 1, n - 2),
                                   [parent EXCEPT !.result = Append(@, node),
                                                  !.i = @ + 1,
                                                  !.pc = "loop"])
                /\ UNCHANGED outcome

GetDependenciesEntryVisited ==
    /\ stack # <<>>
    /\ Top.pc = "entry"
    /\ IF \/ DepthExceeded(Top.depth, Top.maxDepth)
          \/ \E k \in DOMAIN requests :
                requests[k].url = Url(Top.repositoryUrl, Top.packageName)
       THEN /\ ReturnValue(<<>>)
            /\ UNCHANGED <<requests, inflight>>
       ELSE LET req == [url |-> Url(Top.repositoryUrl, Top.packageName), call |-> Top.call]
            IN  /\ requests' = Append(requests, req)
                /\ inflight' = inflight \cup {req}
                /\ stack' = [stack EXCEPT ![Len(stack)].pc = "await_get"]
                /\ UNCHANGED <<calls, outcome>>
    /\ UNCHANGED <<registry, log, config, mainPc, dependencies, dotGraph>>
    /\ UNCHANGED renderVars

\* Lines 24 and 27: the depth test, then the request.
GetDependenciesEntry ==
    /\ stack # <<>>
    /\ Top.pc = "entry"
    /\ IF DepthExceeded(Top.depth, Top.maxDepth)
       THEN /\ ReturnValue(<<>>)
            /\ UNCHANGED <<requests, inflight>>
       ELSE LET req == [url |-> Url(Top.repositoryUrl, Top.packageName), call |-> Top.call]
            IN  /\ requests' = Append(requests, req)
                /\ inflight' = inflight \cup {req}
                /\ stack' = [stack EXCEPT ![Len(stack)].pc = "await_get"]
                /\ UNCHANGED <<calls, outcome>>
    /\ UNCHANGED <<registry, log, config, mainPc, dependencies, dotGraph>>
    /\ UNCHANGED renderVars

\* Lines 27-29: the request succeeds; `dependencies` is the body's field or {}.
AxiosResolve ==
    /\ stack # <<>>
    /\ Top.pc = "await_get"
    /\ \E req \in inflight :
        /\ req.call = Top.call
        /\ Answer(req.url).ok
        /\ inflight' = inflight \ {req}
        /\ LET data == Answer(req.url)
               deps == IF data.hasDependencies THEN data.fields ELSE <<>>
           IN  stack' = [stack EXCEPT ![Len(stack)].entries = ObjectEntries(deps),
                                      ![Len(stack)].i = 1,
                                      ![Len(stack)].result = <<>>,
                                      ![Len(stack)].pc = "loop"]
    /\ UNCHANGED <<registry, calls, requests, outcome, log, config, mainPc,
                   dependencies, dotGraph>>
    /\ UNCHANGED renderVars

AxiosRejectRethrow ==
    /\ stack # <<>>
    /\ Top.pc = "await_get"
    /\ \E req \in inflight :
        /\ req.call = Top.call
        /\ ~Answer(req.url).ok
        /\ inflight' = inflight \ {req}
    /\ stack' = <<>>
    /\ outcome' = [state |-> "rejected", value |-> <<>>]
    /\ log' = log
    /\ UNCHANGED <<registry, calls, requests, config, mainPc, dependencies, dotGraph>>
    /\ UNCHANGED renderVars

AxiosRejectSkipNode ==
    /\ stack # <<>>
    /\ Top.pc = "await_get"
    /\ \E req \in inflight :
        /\ req.call = Top.call
        /\ ~Answer(req.url).ok
        /\ inflight' = inflight \ {req}
    /\ log' = Append(log, [stream |-> "error", at |-> "getDependencies",
                           arg |-> Top.packageName])
    /\ calls' = [calls EXCEPT ![Top.call].returned = TRUE]
    /\ IF Len(stack) = 1
       THEN /\ stack' = <<>>
            /\ outcome' = [state |-> "fulfilled", value |-> <<>>]
       ELSE /\ stack' = Append(SubSeq(stack, 1, Len(stack) - 2),
                               [stack[Len(stack) - 1] EXCEPT !.i = @ + 1, !.pc = "loop"])
            /\ UNCHANGED outcome
    /\ UNCHANGED <<registry, requests, config, mainPc, dependencies, dotGraph>>
    /\ UNCHANGED renderVars

\* Lines 36-38: the request fails; the catch reports it and returns [].
AxiosReject ==
    /\ stack # <<>>
    /\ Top.pc = "await_get"
    /\ \E req \in inflight :
        /\ req.call = Top.call
        /\ ~Answer(req.url).ok
        /\ inflight' = inflight \ {req}
    /\ log' = Append(log, [stream |-> "error", at |-> "getDependencies",
                           arg |-> Top.packageName])
    /\ ReturnValue(<<>>)
    /\ UNCHANGED <<registry, requests, config, mainPc, dependencies, dotGraph>>
    /\ UNCHANGED renderVars

LoopCallNoAwait ==
    /\ stack # <<>>
    /\ Top.pc = "loop"
    /\ Top.i <= Len(Top.entries)
    /\ calls' = Append(calls, CallRecord(Top.entries[Top.i], Top.depth + 1, Top.maxDepth,
                                         Top.repositoryUrl, Top.call, Top.i))
    /\ LET req == [url |-> Url(Top.repositoryUrl, Top.entries[Top.i]),
                   call |-> Len(calls) + 1]
       IN  /\ requests' = Append(requests, req)
           /\ inflight' = inflight \cup {req}
    /\ stack' = [stack EXCEPT ![Len(stack)].i = @ + 1,
                              ![Len(stack)].result =
                                  Append(@, [name |-> Top.entries[Top.i],
                                             dependencies |-> <<>>])]
    /\ UNCHANGED <<registry, outcome, log, config, mainPc, dependencies, dotGraph>>
    /\ UNCHANGED renderVars

\* Lines 31-32: the next entry of the loop; the recursive call at depth + 1.
LoopCall ==
    /\ stack # <<>>
    /\ Top.pc = "loop"
    /\ Top.i <= Len(Top.entries)
    /\ calls' = Append(calls, CallRecord(Top.entries[Top.i], Top.depth + 1, Top.maxDepth,
                                         Top.repositoryUrl, Top.call, Top.i))
    /\ stack' = Append([stack EXCEPT ![Len(stack)].pc = "await_sub"],
                       Frame(Top.entries[Top.i], Top.depth + 1, Top.maxDepth,
                             Top.repositoryUrl, Len(calls) + 1))
    /\ UNCHANGED <<registry, requests, inflight, outcome, log, config, mainPc,
                   dependencies, dotGraph>>
    /\ UNCHANGED renderVars

\* Line 35: the loop is over; `return result`.
LoopReturn ==
    /\ stack # <<>>
    /\ Top.pc = "loop"
    /\ Top.i > Len(Top.entries)
    /\ ReturnValue(Top.result)
    /\ UNCHANGED <<registry, requests, inflight, log, config, mainPc,
                   dependencies, dotGraph>>
    /\ UNCHANGED renderVars

GetDependenciesNext ==
    \/ GetDependenciesEntry
    \/ AxiosResolve
    \/ AxiosReject
    \/ LoopCall
    \/ LoopReturn

----------------------------------------------------------------------------
(* A direct call getDependencies(packageName, 1, maxDepth, repositoryUrl) *)

NoGen == [pc |-> "none", dotString |-> "", outputFilePath |-> "", passed |-> "",
          visualizerPath |-> "", writeFailed |-> FALSE, promise |-> "none"]

InitResolve ==
    /\ registry \in [Names -> Responses]
    /\ \E d \in 1..MaxDepthBound :
        /\ config = [visualizerPath |-> undefined, packageName |-> RootName,
                     outputFilePath |-> undefined, maxDepth |-> d,
                     repositoryUrl |-> RepositoryUrl]
        /\ stack = <<Frame(RootName, 1, d, RepositoryUrl, 1)>>
        /\ calls = <<CallRecord(RootName, 1, d, RepositoryUrl, 0, 0)>>
    /\ requests = <<>>
    /\ inflight = {}
    /\ outcome = [state |-> "pending", value |-> <<>>]
    /\ log = <<>>
    /\ mainPc = "await_resolve"
    /\ dependencies = <<>>
    /\ dotGraph = ""
    /\ gen = NoGen
    /\ fs = <<>>
    /\ effects = <<>>
    /\ procs = <<>>

SpecResolve == InitResolve /\ [][GetDependenciesNext]_vars

\* getDependencies as the recursive function it is: what the call returns
\* against the registry `reg`.
RECURSIVE GetDependencies(_, _, _, _)
GetDependencies(reg, packageName, depth, maxDepth) ==
    IF DepthExceeded(depth, maxDepth) THEN <<>>
    ELSE IF ~reg[packageName].ok THEN <<>>
    ELSE LET deps == IF reg[packageName].hasDependencies
                     THEN reg[packageName].fields ELSE <<>>
             entries == ObjectEntries(deps)
         IN  [i \in 1..Len(entries) |->
                [name |-> entries[i],
                 dependencies |-> GetDependencies(reg, entries[i], depth + 1, maxDepth)]]

----------------------------------------------------------------------------
(* generateImageFromDot, index.js:55-97 *)

\* Default parameter value, line 55: visualizerPath = 'dot'.
DefaultVisualizerPath(arg) == IF arg = undefined THEN "dot" ELSE arg

\* Line 58
DotFilePath(outputFilePath) == outputFilePath \o ".dot"

\* Line 63
SvgFilePath(outputFilePath) == outputFilePath \o ".svg"

\* Line 79
PngFilePath(outputFilePath) == outputFilePath \o ".png"

SvgCommandFixedDot(visualizerPath, dotFilePath, svgFilePath) ==
    "dot -Tsvg " \o dotFilePath \o " -o " \o svgFilePath

\* Line 64
SvgCommand(visualizerPath, dotFilePath, svgFilePath) ==
    visualizerPath \o " -Tsvg " \o dotFilePath \o " -o " \o svgFilePath

\* Line 80
PngCommand(svgFilePath, pngFilePath) == "magick " \o svgFilePath \o " " \o pngFilePath

\* The activation created by the call generateImageFromDot(dotString,
\* outputFilePath, visualizerPath); `passed` keeps the third argument as given.
GenCall(dotString, outputFilePath, visualizerPath) ==
    [pc |-> "entry", dotString |-> dotString, outputFilePath |-> outputFilePath,
     passed |-> visualizerPath,
     visualizerPath |-> DefaultVisualizerPath(visualizerPath),
     writeFailed |-> FALSE, promise |-> "pending"]

WriteFile(files, path, data) ==
    [q \in DOMAIN files \cup {path} |-> IF q = path THEN data ELSE files[q]]

WriteEffect(path, data) == [op |-> "writeFileSync", arg |-> path, data |-> data]

ExecEffect(command) == [op |-> "exec", arg |-> command, data |-> ""]

Process(kind, command, output) ==
    [kind |-> kind, command |-> command, output |-> output, state |-> "running",
     error |-> FALSE, stderr |-> ""]

\* What a tool can print on its diagnostic stream.
StderrOutputs == {"", "Warning: syntax ambiguity"}

\* Callbacks of exec run from the event loop, after the flow that started the
\* process has run to completion.
EventLoopIdle == mainPc = "done"

Running(kind) == { k \in DOMAIN procs : procs[k].kind = kind /\ procs[k].state = "running" }

GenWriteCatchAndContinue ==
    /\ gen.pc = "entry"
    /\ \E ok \in BOOLEAN :
        LET path == DotFilePath(gen.outputFilePath) IN
        /\ effects' = Append(effects, WriteEffect(path, gen.dotString))
        /\ IF ok
           THEN /\ fs' = WriteFile(fs, path, gen.dotString)
                /\ log' = Append(log, [stream |-> "log", at |-> "generateImageFromDot",
                                       arg |-> path])
                /\ gen' = [gen EXCEPT !.pc = "exec_svg"]
           ELSE /\ fs' = fs
                /\ log' = Append(log, [stream |-> "error", at |-> "generateImageFromDot",
                                       arg |-> path])
                /\ gen' = [gen EXCEPT !.pc = "exec_svg", !.writeFailed = TRUE]
    /\ UNCHANGED <<registry, config, mainPc, dependencies, dotGraph, procs>>
    /\ UNCHANGED resolverVars

\* Lines 56-60 and 94-96: the graph text is written to {outputFilePath}.dot;
\* a failing write is caught and reported, and the function is over.
GenWrite ==
    /\ gen.pc = "entry"
    /\ \E ok \in BOOLEAN :
        LET path == DotFilePath(gen.outputFilePath) IN
        /\ effects' = Append(effects, WriteEffect(path, gen.dotString))
        /\ IF ok
           THEN /\ fs' = WriteFile(fs, path, gen.dotString)
                /\ log' = Append(log, [stream |-> "log", at |-> "generateImageFromDot",
                                       arg |-> path])
                /\ gen' = [gen EXCEPT !.pc = "exec_svg"]
           ELSE /\ fs' = fs
                /\ log' = Append(log, [stream |-> "error", at |-> "generateImageFromDot",
                                       arg |-> path])
                /\ gen' = [gen EXCEPT !.pc = "returned", !.writeFailed = TRUE,
                                      !.promise = "fulfilled"]
    /\ UNCHANGED <<registry, config, mainPc, dependencies, dotGraph, procs>>
    /\ UNCHANGED resolverVars

\* Lines 63-67 and 93-97: exec starts the vector conversion and returns at
\* once; nothing awaits the process, so the function's promise is fulfilled.
GenExecSvg ==
    /\ gen.pc = "exec_svg"
    /\ LET svgCommand == SvgCommand(gen.visualizerPath, DotFilePath(gen.outputFilePath),
                                    SvgFilePath(gen.outputFilePath))
       IN  /\ effects' = Append(effects, ExecEffect(svgCommand))
           /\ procs' = Append(procs, Process("svg", svgCommand,
                                             SvgFilePath(gen.outputFilePath)))
    /\ gen' = [gen EXCEPT !.pc = "returned", !.promise = "fulfilled"]
    /\ UNCHANGED <<registry, log, config, mainPc, dependencies, dotGraph, fs>>
    /\ UNCHANGED resolverVars

\* The flow awaiting generateImageFromDot resumes once its promise is
\* fulfilled (line 113; line 127 of the test) and runs to its end.
CallerResume ==
    /\ mainPc = "await_render"
    /\ gen.promise = "fulfilled"
    /\ mainPc' = "done"
    /\ UNCHANGED <<registry, log, config, dependencies, dotGraph>>
    /\ UNCHANGED resolverVars
    /\ UNCHANGED renderVars

\* The process p has ended: the tool leaves its output file when it exits
\* without error.
Exit(k, error, stderr) ==
    [procs EXCEPT ![k].state = "exited", ![k].error = error, ![k].stderr = stderr]

ToolOutput(k, error) ==
    IF error THEN fs ELSE WriteFile(fs, procs[k].output, procs[k].command)

SvgCallbackUngated ==
    /\ EventLoopIdle
    /\ \E k \in Running("svg"), error \in BOOLEAN, stderr \in StderrOutputs :
        LET pngCommand == PngCommand(SvgFilePath(gen.outputFilePath),
                                     PngFilePath(gen.outputFilePath))
        IN  /\ fs' = ToolOutput(k, error)
            /\ log' = Append(log, [stream |-> IF error \/ stderr # "" THEN "error" ELSE "log",
                                   at |-> "svg", arg |-> stderr])
            /\ effects' = Append(effects, ExecEffect(pngCommand))
            /\ procs' = Append(Exit(k, error, stderr),
                               Process("png", pngCommand, PngFilePath(gen.outputFilePath)))
    /\ UNCHANGED <<registry, config, mainPc, dependencies, dotGraph, gen>>
    /\ UNCHANGED resolverVars

SvgCallbackCleanup ==
    /\ EventLoopIdle
    /\ \E k \in Running("svg"), error \in BOOLEAN, stderr \in StderrOutputs :
        /\ IF error \/ stderr # ""
           THEN /\ fs' = [q \in DOMAIN fs \ {DotFilePath(gen.outputFilePath)} |-> fs[q]]
                /\ log' = Append(log, [stream |-> "error", at |-> "svg", arg |-> stderr])
                /\ procs' = Exit(k, error, stderr)
                /\ UNCHANGED effects
           ELSE LET pngCommand == PngCommand(SvgFilePath(gen.outputFilePath),
                                             PngFilePath(gen.outputFilePath))
                IN  /\ fs' = ToolOutput(k, error)
                    /\ log' = Append(log, [stream |-> "log", at |-> "svg",
                                           arg |-> SvgFilePath(gen.outputFilePath)])
                    /\ effects' = Append(effects, ExecEffect(pngCommand))
                    /\ procs' = Append(Exit(k, error, stderr),
                                       Process("png", pngCommand,
                                               PngFilePath(gen.outputFilePath)))
    /\ UNCHANGED <<registry, config, mainPc, dependencies, dotGraph, gen>>
    /\ UNCHANGED resolverVars

\* Lines 67-82: the callback of the vector conversion. An error or any
\* diagnostic output is reported and ends the pipeline; otherwise exec starts
\* the raster conversion.
SvgCallback ==
    /\ EventLoopIdle
    /\ \E k \in Running("svg"), error \in BOOLEAN, stderr \in StderrOutputs :
        /\ fs' = ToolOutput(k, error)
        /\ IF error \/ stderr # ""
           THEN /\ log' = Append(log, [stream |-> "error", at |-> "svg", arg |-> stderr])
                /\ procs' = Exit(k, error, stderr)
                /\ UNCHANGED effects
           ELSE LET pngCommand == PngCommand(SvgFilePath(gen.outputFilePath),
                                             PngFilePath(gen.outputFilePath))
                IN  /\ log' = Append(log, [stream |-> "log", at |-> "svg",
                                           arg |-> SvgFilePath(gen.outputFilePath)])
                    /\ effects' = Append(effects, ExecEffect(pngCommand))
                    /\ procs' = Append(Exit(k, error, stderr),
                                       Process("png", pngCommand,
                                               PngFilePath(gen.outputFilePath)))
    /\ UNCHANGED <<registry, config, mainPc, dependencies, dotGraph, gen>>
    /\ UNCHANGED resolverVars

\* Lines 82-92: the callback of the raster conversion; it reports and starts
\* nothing.
PngCallback ==
    /\ EventLoopIdle
    /\ \E k \in Running("png"), error \in BOOLEAN, stderr \in StderrOutputs :
        /\ fs' = ToolOutput(k, error)
        /\ procs' = Exit(k, error, stderr)
        /\ log' = Append(log, [stream |-> IF error \/ stderr # "" THEN "error" ELSE "log",
                               at |-> "png",
                               arg |-> IF error \/ stderr # "" THEN stderr
                                       ELSE PngFilePath(gen.outputFilePath)])
    /\ UNCHANGED <<registry, config, mainPc, dependencies, dotGraph, gen, effects>>
    /\ UNCHANGED resolverVars

GenerateImageFromDotNext ==
    \/ GenWrite
    \/ GenExecSvg
    \/ CallerResume
    \/ SvgCallback
    \/ PngCallback

----------------------------------------------------------------------------
(* A direct call generateImageFromDot(dotString, outputFilePath, visualizerPath) *)

DotStrings == {"digraph example-package { }", "digraph 7 {\n  \"7\" -> \"dep1\";\n}\n"}

OutputBaseNames == {"output", "out/graph.v2"}

VisualizerPaths == {undefined, "dot", "customPathToDot"}

InitRender ==
    /\ registry \in [Names -> {[ok |-> FALSE, hasDependencies |-> FALSE, fields |-> <<>>]}]
    /\ stack = <<>>
    /\ calls = <<>>
    /\ requests = <<>>
    /\ inflight = {}
    /\ outcome = [state |-> "pending", value |-> <<>>]
    /\ log = <<>>
    /\ config = [visualizerPath |-> undefined, packageName |-> RootName,
                 outputFilePath |-> undefined, maxDepth |-> 1,
                 repositoryUrl |-> RepositoryUrl]
    /\ mainPc = "await_render"
    /\ dependencies = <<>>
    /\ dotGraph = ""
    /\ \E text \in DotStrings, base \in OutputBaseNames, cmd \in VisualizerPaths :
        gen = GenCall(text, base, cmd)
    /\ fs = <<>>
    /\ effects = <<>>
    /\ procs = <<>>

SpecRender == InitRender /\ [][GenerateImageFromDotNext]_vars

----------------------------------------------------------------------------
(* generateDotGraph, index.js:42-53 *)

RECURSIVE AddDependencies(_, _, _)
RECURSIVE ForEachDependency(_, _, _)

AddDependenciesChildrenFirst(graph, dep, parent) ==
    ForEachDependency(graph, dep.dependencies, dep.name)
    \o "  \"" \o parent \o "\" -> \"" \o dep.name \o "\";\n"

\* Lines 45-48: addDependencies(dep, parent) appends the edge of dep to the
\* text `graph` of the enclosing call, then visits dep's dependencies; the
\* text so far is passed in and the extended text is the value.
AddDependencies(graph, dep, parent) ==
    ForEachDependency(graph \o "  \"" \o parent \o "\" -> \"" \o dep.name \o "\";\n",
                      dep.dependencies, dep.name)

\* Lines 47 and 50: deps.forEach((d) => addDependencies(d, parent)).
ForEachDependency(graph, deps, parent) ==
    IF deps = <<>> THEN graph
    ELSE ForEachDependency(AddDependencies(graph, Head(deps), parent), Tail(deps), parent)

\* Lines 42-53
GenerateDotGraph(deps, packageName) ==
    ForEachDependency("digraph " \o packageName \o " {\n", deps, packageName) \o "}\n"

\* A direct call generateDotGraph(dependencies, packageName) (line 104 of the
\* test, line 109 of the run).
CallGenerateDotGraph ==
    /\ mainPc = "serialize"
    /\ dotGraph' = GenerateDotGraph(dependencies, config.packageName)
    /\ mainPc' = "serialized"
    /\ UNCHANGED <<registry, log, config, dependencies>>
    /\ UNCHANGED resolverVars
    /\ UNCHANGED renderVars

\* The trees the resolver can return.
Trees ==
    { GetDependencies(reg, RootName, 1, d) :
        reg \in [Names -> Responses], d \in 1..MaxDepthBound }

GraphNames == {RootName, "example-package"}

InitSerialize ==
    /\ registry \in [Names -> {[ok |-> FALSE, hasDependencies |-> FALSE, fields |-> <<>>]}]
    /\ stack = <<>>
    /\ calls = <<>>
    /\ requests = <<>>
    /\ inflight = {}
    /\ outcome = [state |-> "pending", value |-> <<>>]
    /\ log = <<>>
    /\ \E name \in GraphNames :
        config = [visualizerPath |-> undefined, packageName |-> name,
                  outputFilePath |-> undefined, maxDepth |-> 1,
                  repositoryUrl |-> RepositoryUrl]
    /\ mainPc = "serialize"
    /\ dependencies \in Trees
    /\ dotGraph = ""
    /\ gen = NoGen
    /\ fs = <<>>
    /\ effects = <<>>
    /\ procs = <<>>

SpecSerialize == InitSerialize /\ [][CallGenerateDotGraph]_vars

----------------------------------------------------------------------------
(* The run, index.js:99-117 *)

\* Position of the first occurrence of pat in s, 0 if there is none.
IndexOf(s, pat) ==
    LET hits == { i \in 1..(Len(s) - Len(pat) + 1) : SubSeq(s, i, i + Len(pat) - 1) = pat }
    IN  IF hits = {} THEN 0 ELSE CHOOSE i \in hits : \A j \in hits : i <= j

\* s.replace(pat, rep) with a string pattern: the first occurrence only.
StringReplace(s, pat, rep) ==
    LET i == IndexOf(s, pat)
    IN  IF i = 0 THEN s
        ELSE SubSeq(s, 1, i - 1) \o rep \o SubSeq(s, i + Len(pat), Len(s))

NoConfig == [visualizerPath |-> undefined, packageName |-> undefined,
             outputFilePath |-> undefined, maxDepth |-> 0, repositoryUrl |-> undefined]

OutputFilePaths == {"output.dot", "my.dots/graph.dot"}

\* The records readConfig can resolve with (lines 6-21).
Configs ==
    [visualizerPath : {undefined, "customPathToDot"}, packageName : {RootName},
     outputFilePath : OutputFilePaths, maxDepth : 1..(MaxDepthBound + 1),
     repositoryUrl : {RepositoryUrl}]

\* Registries of a run: the packages below the root fail, or declare nothing,
\* or declare dep2.
LeafResponses ==
    { [ok |-> FALSE, hasDependencies |-> FALSE, fields |-> <<>>],
      [ok |-> TRUE, hasDependencies |-> TRUE, fields |-> <<>>],
      [ok |-> TRUE, hasDependencies |-> TRUE, fields |-> <<"dep2">>] }

RunRegistries ==
    { reg \in [Names -> Responses] :
        /\ reg["dep1"] \in LeafResponses
        /\ reg["dep2"] \in LeafResponses }

\* Line 101: await readConfig('./config.csv'); a rejection goes to the catch
\* of line 114.
MainReadConfig ==
    /\ mainPc = "start"
    /\ \/ /\ \E c \in Configs : config' = c
          /\ mainPc' = "call_resolve"
          /\ UNCHANGED log
       \/ /\ mainPc' = "done"
          /\ log' = Append(log, [stream |-> "error", at |-> "main", arg |-> "readConfig"])
          /\ UNCHANGED config
    /\ UNCHANGED <<registry, dependencies, dotGraph>>
    /\ UNCHANGED resolverVars
    /\ UNCHANGED renderVars

\* Line 102: getDependencies(config.packageName, 1, config.maxDepth, config.repositoryUrl)
MainCallGetDependencies ==
    /\ mainPc = "call_resolve"
    /\ stack' = <<Frame(config.packageName, 1, config.maxDepth, config.repositoryUrl, 1)>>
    /\ calls' = <<CallRecord(config.packageName, 1, config.maxDepth, config.repositoryUrl,
                             0, 0)>>
    /\ mainPc' = "await_resolve"
    /\ UNCHANGED <<registry, requests, inflight, outcome, log, config, dependencies,
                   dotGraph>>
    /\ UNCHANGED renderVars

\* Lines 104-107: an empty result is reported and ends the run.
ReportEmpty ==
    /\ log' = Append(log, [stream |-> "log", at |-> "main", arg |-> "empty"])
    /\ mainPc' = "done"
    /\ UNCHANGED <<dotGraph, gen, fs, effects>>

\* Lines 109-113: the graph text is built and written to
\* config.outputFilePath (a failing write goes to the catch of line 114), and
\* generateImageFromDot is called with the path without its '.dot'.
SerializeAndRender(deps) ==
    LET text == GenerateDotGraph(deps, config.packageName) IN
    /\ dotGraph' = text
    /\ effects' = Append(effects, WriteEffect(config.outputFilePath, text))
    /\ \E ok \in BOOLEAN :
        IF ok
        THEN /\ fs' = WriteFile(fs, config.outputFilePath, text)
             /\ log' = Append(log, [stream |-> "log", at |-> "main", arg |-> text])
             /\ gen' = GenCall(text, StringReplace(config.outputFilePath, ".dot", ""),
                               config.visualizerPath)
             /\ mainPc' = "await_render"
        ELSE /\ fs' = fs
             /\ log' = Append(log, [stream |-> "error", at |-> "main",
                                    arg |-> "writeFileSync"])
             /\ gen' = gen
             /\ mainPc' = "done"

MainAfterResolveNoEmptyCheck ==
    /\ mainPc = "await_resolve"
    /\ outcome.state = "fulfilled"
    /\ dependencies' = outcome.value
    /\ SerializeAndRender(outcome.value)
    /\ UNCHANGED <<registry, config, procs>>
    /\ UNCHANGED resolverVars

MainAfterResolveStreaming ==
    /\ mainPc = "await_resolve"
    /\ stack # <<>>
    /\ stack[1].result # <<>>
    /\ dependencies' = stack[1].result
    /\ SerializeAndRender(stack[1].result)
    /\ UNCHANGED <<registry, config, procs>>
    /\ UNCHANGED resolverVars

\* Lines 102-113: the resolution is over and the run goes on with its result.
MainAfterResolve ==
    /\ mainPc = "await_resolve"
    /\ outcome.state = "fulfilled"
    /\ dependencies' = outcome.value
    /\ IF Len(outcome.value) = 0 THEN ReportEmpty ELSE SerializeAndRender(outcome.value)
    /\ UNCHANGED <<registry, config, procs>>
    /\ UNCHANGED resolverVars

Init ==
    /\ registry \in RunRegistries
    /\ stack = <<>>
    /\ calls = <<>>
    /\ requests = <<>>
    /\ inflight = {}
    /\ outcome = [state |-> "pending", value |-> <<>>]
    /\ log = <<>>
    /\ config = NoConfig
    /\ mainPc = "start"
    /\ dependencies = <<>>
    /\ dotGraph = ""
    /\ gen = NoGen
    /\ fs = <<>>
    /\ effects = <<>>
    /\ procs = <<>>

Next ==
    \/ MainReadConfig
    \/ MainCallGetDependencies
    \/ GetDependenciesEntry
    \/ AxiosResolve
    \/ AxiosReject
    \/ LoopCall
    \/ LoopReturn
    \/ MainAfterResolve
    \/ GenWrite
    \/ GenExecSvg
    \/ CallerResume
    \/ SvgCallback
    \/ PngCallback

Spec == Init /\ [][Next]_vars

----------------------------------------------------------------------------
(* getDependencies under fair scheduling *)

\* Registries in which every package declares at most one dependency, so
\* that the dependency graph can close a cycle through any of the packages.
ChainRegistries ==
    { reg \in [Names -> Responses] : \A p \in Names : Len(reg[p].fields) <= 1 }

\* A call getDependencies(RootName, 1, d, RepositoryUrl) as line 102 makes it.
InitTerminate ==
    /\ registry \in RunRegistries \cup ChainRegistries
    /\ \E d \in 1..(MaxDepthBound + 1) :
        /\ config = [visualizerPath |-> undefined, packageName |-> RootName,
                     outputFilePath |-> undefined, maxDepth |-> d,
                     repositoryUrl |-> RepositoryUrl]
        /\ stack = <<Frame(RootName, 1, d, RepositoryUrl, 1)>>
        /\ calls = <<CallRecord(RootName, 1, d, RepositoryUrl, 0, 0)>>
    /\ requests = <<>>
    /\ inflight = {}
    /\ outcome = [state |-> "pending", value |-> <<>>]
    /\ log = <<>>
    /\ mainPc = "await_resolve"
    /\ dependencies = <<>>
    /\ dotGraph = ""
    /\ gen = NoGen
    /\ fs = <<>>
    /\ effects = <<>>
    /\ procs = <<>>

\* Every request is eventually answered (AxiosResolve or AxiosReject), and
\* the engine runs the synchronous steps between two awaits: the one enabled
\* step of the call is eventually taken.
SpecTerminate ==
    InitTerminate /\ [][GetDependenciesNext]_vars /\ WF_vars(GetDependenciesNext)

----------------------------------------------------------------------------
(* Properties of getDependencies *)

Resolved == stack = <<>> /\ mainPc = "await_resolve"

Fulfilled == outcome.state = "fulfilled"

\* The requests issued by call c.
RequestsOf(c) == SelectSeq(requests, LAMBDA r : r.call = c)

\* Call c has run its synchronous prefix (lines 24-27).
Entered(c) == calls[c].returned \/ \E k \in DOMAIN stack : stack[k].call = c /\ stack[k].pc # "entry"

\* The child call made by call c for its i-th entry, 0 if not made yet.
ChildOf(c, i) ==
    IF \E k \in DOMAIN calls : calls[k].parent = c /\ calls[k].index = i
    THEN CHOOSE k \in DOMAIN calls : calls[k].parent = c /\ calls[k].index = i
    ELSE 0

RECURSIVE DepthBounded(_, _, _)
DepthBounded(nodes, level, d) ==
    \A i \in DOMAIN nodes :
        /\ level <= d
        /\ (level = d => nodes[i].dependencies = <<>>)
        /\ DepthBounded(nodes[i].dependencies, level + 1, d)

RECURSIVE Height(_)
Height(nodes) ==
    IF nodes = <<>> THEN 0
    ELSE 1 + (CHOOSE h \in { Height(nodes[i].dependencies) : i \in DOMAIN nodes } :
                \A i \in DOMAIN nodes : Height(nodes[i].dependencies) <= h)

\* C1: the tree returned by getDependencies(root, 1, d, url) has no node at a
\* depth greater than d (top-level nodes are at depth 1), and every node at
\* depth d has an empty dependencies sequence.
C1_DepthBound == Fulfilled => DepthBounded(outcome.value, 1, config.maxDepth)

\* A returned tree that reaches depth d >= 2 and whose nodes at depth d are
\* packages that do declare dependencies: the bound cut them.
C1_Witness ==
    /\ Fulfilled
    /\ config.maxDepth >= 2
    /\ Height(outcome.value) = config.maxDepth
    /\ \E c \in DOMAIN calls :
        /\ calls[c].depth = config.maxDepth + 1
        /\ calls[c].returned
        /\ registry[calls[c].packageName].ok
        /\ registry[calls[c].packageName].fields # <<>>

FailuresAsEmpty(reg) ==
    [p \in DOMAIN reg |->
        IF reg[p].ok THEN reg[p]
        ELSE [ok |-> TRUE, hasDependencies |-> TRUE, fields |-> <<>>]]

LookupFailed(c) == Entered(c) /\ RequestsOf(c) # <<>> /\ ~registry[calls[c].packageName].ok

\* C3: a failed lookup for p makes p's own call return the empty sequence, p
\* stays in its parent's sequence as a node with empty dependencies, and the
\* whole call returns exactly what it returns against the registry in which
\* every failing lookup yields an empty mapping instead.
C3_FailureIsolated ==
    /\ \A c \in DOMAIN calls :
        (calls[c].returned /\ LookupFailed(c)) =>
            /\ calls[c].value = <<>>
            /\ calls[c].parent # 0 =>
                LET par == calls[c].parent IN
                calls[par].returned =>
                    /\ Len(calls[par].value) >= calls[c].index
                    /\ calls[par].value[calls[c].index] =
                          [name |-> calls[c].packageName, dependencies |-> <<>>]
    /\ Resolved =>
        /\ Fulfilled
        /\ outcome.value = GetDependencies(FailuresAsEmpty(registry), config.packageName,
                                           1, config.maxDepth)

\* A finished resolution in which a lookup below the root failed, the failed
\* package is not the last entry of its parent, and a later sibling got
\* dependencies of its own.
C3_Witness ==
    /\ Resolved
    /\ Fulfilled
    /\ \E c \in DOMAIN calls :
        /\ calls[c].parent = 1
        /\ LookupFailed(c)
        /\ \E s \in DOMAIN calls :
            /\ calls[s].parent = 1
            /\ calls[s].index > calls[c].index
            /\ calls[s].value # <<>>


DeclaredFields(c) ==
    IF registry[calls[c].packageName].hasDependencies
    THEN registry[calls[c].packageName].fields ELSE <<>>

LookupSucceeded(c) ==
    /\ calls[c].returned
    /\ calls[c].depth <= calls[c].maxDepth
    /\ registry[calls[c].packageName].ok

\* The i-th node of call c's value is the result of the child call made for
\* that name at the next depth.
NodeIsChildResult(c, i) ==
    LET v == calls[c].value
        k == ChildOf(c, i)
    IN  /\ k # 0
        /\ calls[k].packageName = v[i].name
        /\ calls[k].depth = calls[c].depth + 1
        /\ calls[k].returned
        /\ v[i].dependencies = calls[k].value

Pos(f, a) == CHOOSE i \in DOMAIN f : f[i] = a

\* Own-property order: array-index names first, ascending; then the other
\* names in the order the fields are written.
Precedes(f, a, b) ==
    IF IsArrayIndex(a)
    THEN IsArrayIndex(b) => ToNumber(a) < ToNumber(b)
    ELSE ~IsArrayIndex(b) /\ Pos(f, a) < Pos(f, b)

ExampleRegistry ==
    /\ registry[RootName] = [ok |-> TRUE, hasDependencies |-> TRUE,
                             fields |-> <<"dep1", "dep2">>]
    /\ registry["dep1"].ok /\ registry["dep1"].fields = <<>>
    /\ registry["dep2"].ok /\ registry["dep2"].fields = <<>>

ExampleResult ==
    <<[name |-> "dep1", dependencies |-> <<>>], [name |-> "dep2", dependencies |-> <<>>]>>

C9_RequestPerCall ==
    /\ \A c \in DOMAIN calls :
        LET r == RequestsOf(c) IN
        IF calls[c].depth > calls[c].maxDepth
        THEN /\ r = <<>>
             /\ calls[c].returned => calls[c].value = <<>>
        ELSE /\ Len(r) <= 1
             /\ Entered(c) => Len(r) = 1
             /\ \A k \in DOMAIN r :
                    r[k].url = calls[c].repositoryUrl \o "/" \o calls[c].packageName \o "/latest"
    /\ \A k \in DOMAIN requests : calls[requests[k].call].depth <= config.maxDepth

\* A finished run in which a call beyond the bound returned and a call within
\* the bound made its request.
C9_Witness ==
    /\ Resolved
    /\ \E c \in DOMAIN calls : calls[c].depth > calls[c].maxDepth /\ calls[c].returned
    /\ \E c \in DOMAIN calls : calls[c].depth = calls[c].maxDepth /\ Len(RequestsOf(c)) = 1
    /\ Len(requests) >= 3

EmptyOrFailed(r) == ~r.ok \/ ~r.hasDependencies \/ r.fields = <<>>

\* C10: getDependencies never raises to its caller: its promise is never
\* rejected and, once the call is over, it is fulfilled with a value; when
\* every lookup fails or yields an empty mapping the value is the empty
\* sequence.
C10_NeverRaises ==
    /\ outcome.state # "rejected"
    /\ Resolved => Fulfilled
    /\ (Fulfilled /\ \A p \in Names : EmptyOrFailed(registry[p])) => outcome.value = <<>>

\* A finished run in which a lookup below the root failed and the call still
\* returned its nodes.
C10_Witness ==
    /\ Resolved
    /\ Fulfilled
    /\ \E c \in DOMAIN calls : c # 1 /\ LookupFailed(c)
    /\ outcome.value # <<>>

----------------------------------------------------------------------------
(* Properties of generateImageFromDot *)

Clean(k) == procs[k].state = "exited" /\ ~procs[k].error /\ procs[k].stderr = ""

Failed(k) == procs[k].state = "exited" /\ (procs[k].error \/ procs[k].stderr # "")

ExecEffects == SelectSeq(effects, LAMBDA e : e.op = "exec")

\* C2: the raster conversion is started only after the vector conversion has
\* completed with no error and empty stderr; when the vector conversion ends
\* with an error or with diagnostic output, no raster conversion is started.
C2_RasterGated ==
    /\ \A k \in DOMAIN procs :
        procs[k].kind = "png" =>
            \E j \in 1..(k - 1) : procs[j].kind = "svg" /\ Clean(j)
    /\ (\E j \in DOMAIN procs : procs[j].kind = "svg" /\ Failed(j)) =>
        /\ \A k \in DOMAIN procs : procs[k].kind # "png"
        /\ Len(ExecEffects) = 1

\* The vector conversion exited with status 0 but printed a diagnostic: the
\* pipeline has stopped with one process started.
C2_Witness ==
    /\ \E j \in DOMAIN procs :
        /\ procs[j].kind = "svg"
        /\ procs[j].state = "exited"
        /\ ~procs[j].error
        /\ procs[j].stderr # ""
    /\ Len(procs) = 1

IsPrefix(a, b) == Len(a) <= Len(b) /\ SubSeq(b, 1, Len(a)) = a

\* The side effects C4 lists for generateImageFromDot(text, base, cmd).
ExpectedEffects(text, base, cmd) ==
    << [op |-> "writeFileSync", arg |-> base \o ".dot", data |-> text],
       [op |-> "exec", arg |-> cmd \o " -Tsvg " \o base \o ".dot -o " \o base \o ".svg",
        data |-> ""],
       [op |-> "exec", arg |-> "magick " \o base \o ".svg " \o base \o ".png", data |-> ""] >>

\* C4: when the write and both commands succeed with empty stderr,
\* generateImageFromDot(text, base, cmd) writes text to {base}.dot, then runs
\* `{cmd} -Tsvg {base}.dot -o {base}.svg`, then runs one more command from
\* {base}.svg to {base}.png, and has no other side effect: two commands in
\* all, the write before the first.
C4_SuccessSequence ==
    LET cmd == IF gen.passed = undefined THEN "dot" ELSE gen.passed
        expected == ExpectedEffects(gen.dotString, gen.outputFilePath, cmd)
    IN  (gen.pc # "none" /\ ~gen.writeFailed /\ \A k \in DOMAIN procs : ~Failed(k)) =>
            /\ IsPrefix(effects, expected)
            /\ Len(procs) = Len(ExecEffects)
            /\ (Len(procs) = 2 /\ Clean(2)) =>
                /\ effects = expected
                /\ fs[gen.outputFilePath \o ".dot"] = gen.dotString

\* The run of the test: customPathToDot, base name output, everything succeeds.
C4_Witness ==
    /\ gen.passed = "customPathToDot"
    /\ gen.outputFilePath = "output"
    /\ Len(procs) = 2
    /\ Clean(1)
    /\ Clean(2)
    /\ Len(effects) = 3

\* C5 (as claimed): the flow that awaits generateImageFromDot does not resume
\* until the vector conversion, and the raster conversion if started, have
\* completed.
C5_CallerSuspended ==
    (gen.pc # "none" /\ mainPc = "done") =>
        \A k \in DOMAIN procs : procs[k].state = "exited"

\* C6: when the write of {base}.dot fails, the failure is reported, no
\* external process is started, and the call completes without raising.
C6_WriteFailure ==
    /\ gen.promise # "rejected"
    /\ gen.writeFailed =>
        /\ procs = <<>>
        /\ ExecEffects = <<>>
        /\ gen.pc = "returned"
        /\ gen.promise = "fulfilled"
        /\ \E i \in DOMAIN log :
            log[i].stream = "error" /\ log[i].at = "generateImageFromDot"
        /\ DotFilePath(gen.outputFilePath) \notin DOMAIN fs

\* The write failed and the caller has resumed and finished.
C6_Witness == gen.writeFailed /\ mainPc = "done" /\ Len(effects) = 1

----------------------------------------------------------------------------
(* Properties of generateDotGraph *)

\* The node occurrences of a tree, each named by its path of child indices.
RECURSIVE Paths(_)
Paths(nodes) ==
    { <<i>> : i \in DOMAIN nodes }
    \cup UNION { { <<i>> \o q : q \in Paths(nodes[i].dependencies) } : i \in DOMAIN nodes }

RECURSIVE NodeAt(_, _)
NodeAt(nodes, path) ==
    IF Len(path) = 1 THEN nodes[path[1]]
    ELSE NodeAt(nodes[path[1]].dependencies, Tail(path))

\* Pre-order: an occurrence comes before its descendants, and the subtree of
\* an earlier sibling comes before the subtree of a later one.
PreOrderBefore(p, q) ==
    /\ p # q
    /\ \/ IsPrefix(p, q)
       \/ \E k \in 1..Min(Len(p), Len(q)) :
            /\ SubSeq(p, 1, k - 1) = SubSeq(q, 1, k - 1)
            /\ p[k] < q[k]

RECURSIVE InPreOrder(_)
InPreOrder(S) ==
    IF S = {} THEN <<>>
    ELSE LET first == CHOOSE p \in S : \A q \in S \ {p} : PreOrderBefore(p, q)
         IN  <<first>> \o InPreOrder(S \ {first})

\* The edge line of the occurrence at `path`: from its parent's name, or from
\* the graph name for a top-level node.
EdgeLine(nodes, graphName, path) ==
    LET parent == IF Len(path) = 1 THEN graphName
                  ELSE NodeAt(nodes, SubSeq(path, 1, Len(path) - 1)).name
    IN  "  \"" \o parent \o "\" -> \"" \o NodeAt(nodes, path).name \o "\";\n"

RECURSIVE Concat(_)
Concat(lines) == IF lines = <<>> THEN "" ELSE Head(lines) \o Concat(Tail(lines))

\* C7: the text of generateDotGraph is the header line, then exactly one edge
\* line per node occurrence of the tree, in depth-first pre-order, then the
\* closing line.
C7_PreOrderEdges ==
    mainPc = "serialized" =>
        LET order == InPreOrder(Paths(dependencies))
        IN  dotGraph = "digraph " \o config.packageName \o " {\n"
                       \o Concat([k \in DOMAIN order |->
                                    EdgeLine(dependencies, config.packageName, order[k])])
                       \o "}\n"

\* A serialized tree whose first top-level node has dependencies and is
\* followed by a sibling.
C7_Witness ==
    /\ mainPc = "serialized"
    /\ Len(dependencies) >= 2
    /\ dependencies[1].dependencies # <<>>
    /\ config.packageName = "example-package"

(***************************************************************************)
(* C11: empty top-level result                                             *)
(***************************************************************************)

EmptyResult == Fulfilled /\ outcome.value = <<>>

\* C11: when the resolution of the root package gives an empty list, the
\* run only reports it: no file is written, no process is started,
\* generateImageFromDot is not called, no graph text is built, and the run
\* ends with the informational message as its last output.
C11_EmptyReportedOnly ==
    (EmptyResult /\ mainPc \in {"await_resolve", "await_render", "done"}) =>
        /\ effects = <<>>
        /\ procs = <<>>
        /\ fs = <<>>
        /\ gen.pc = "none"
        /\ dotGraph = ""
        /\ mainPc # "await_render"
        /\ mainPc = "done" =>
              /\ log # <<>>
              /\ log[Len(log)] = [stream |-> "log", at |-> "main", arg |-> "empty"]

C11_Witness ==
    /\ EmptyResult
    /\ mainPc = "done"
    /\ Len(requests) = 1
    /\ log[Len(log)] = [stream |-> "log", at |-> "main", arg |-> "empty"]
    /\ effects = <<>>


(***************************************************************************)
(* C13: one base name for the three artifacts                              *)
(***************************************************************************)

EndsWith(s, suffix) ==
    Len(s) >= Len(suffix) /\ SubSeq(s, Len(s) - Len(suffix) + 1, Len(s)) = suffix

\* outputFilePath without its trailing extension.
WithoutExtension(path) == SubSeq(path, 1, Len(path) - Len(".dot"))

\* C13: for an outputFilePath ending in ".dot", every graph-source write of
\* the run goes to outputFilePath itself, and the vector and raster files are
\* named after outputFilePath without its trailing extension.
C13_SharedBase ==
    EndsWith(config.outputFilePath, ".dot") =>
        LET base == WithoutExtension(config.outputFilePath) IN
        /\ \A k \in DOMAIN effects :
              effects[k].op = "writeFileSync" => effects[k].arg = config.outputFilePath
        /\ \A k \in DOMAIN procs :
              procs[k].output \in {base \o ".svg", base \o ".png"}


(***************************************************************************)
(* C14: one operation in flight, requests in depth-first pre-order         *)
(***************************************************************************)

\* The position of call c in the call tree: the entry indices from the root
\* call down to c (the root call has the empty path).
RECURSIVE CallPath(_)
CallPath(c) ==
    IF calls[c].parent = 0 THEN <<>>
    ELSE Append(CallPath(calls[c].parent), calls[c].index)

\* Call a is call b or one of its ancestors.
InSubtree(b, a) == IsPrefix(CallPath(a), CallPath(b))

RunningProcs == { k \in DOMAIN procs : procs[k].state = "running" }

\* C14: at most one registry request or external process is in flight; a
\* request in flight is the latest one issued; requests are issued in
\* pre-order of the call tree; and when the call for a later sibling exists,
\* the call of every earlier sibling has returned and nothing of its subtree
\* is in flight.
C14_OneAtATime ==
    /\ Cardinality(inflight) + Cardinality(RunningProcs) <= 1
    /\ \A req \in inflight : requests # <<>> /\ req = requests[Len(requests)]
    /\ \A j, k \in DOMAIN requests :
          j < k => PreOrderBefore(CallPath(requests[j].call), CallPath(requests[k].call))
    /\ \A a, b \in DOMAIN calls :
          (calls[a].parent = calls[b].parent /\ calls[a].parent # 0
              /\ calls[a].index < calls[b].index) =>
             /\ calls[a].returned
             /\ \A req \in inflight : ~InSubtree(req.call, a)

\* A finished run whose requests went three levels deep before the second
\* top-level sibling was asked for, and whose two conversions both ran.
C14_Witness ==
    /\ mainPc = "done"
    /\ Len(requests) >= 4
    /\ \E j \in DOMAIN requests :
          /\ j < Len(requests)
          /\ Len(CallPath(requests[j].call)) = 2
          /\ Len(CallPath(requests[j + 1].call)) = 1
    /\ Len(procs) = 2
    /\ RunningProcs = {}


(***************************************************************************)
(* C15: no streaming                                                       *)
(***************************************************************************)

RenderStarted == effects # <<>> \/ procs # <<>> \/ dotGraph # "" \/ gen.pc # "none"

\* C15: the graph text is built, a file is written or a process is started
\* only once the whole tree is resolved: the root call has fulfilled, no call
\* is active, no request is in flight and every call made has returned.
C15_ResolvedBeforeEffects ==
    RenderStarted =>
        /\ Fulfilled
        /\ stack = <<>>
        /\ inflight = {}
        /\ \A c \in DOMAIN calls : calls[c].returned
        /\ dependencies = outcome.value

\* C15: no registry request is issued once the first write has been made.
C15_NoRequestAfterWrite ==
    [][effects # <<>> => requests' = requests]_vars

\* C15 as a whole.
C15_NoStreaming == []C15_ResolvedBeforeEffects /\ C15_NoRequestAfterWrite

C15_Witness ==
    /\ Len(requests) >= 3
    /\ Len(effects) = 4
    /\ Len(procs) = 2
    /\ mainPc = "done"


(***************************************************************************)
(* C16: no deduplication, no caching                                       *)
(***************************************************************************)

\* The dependency names package q declares in the registry: none when its
\* lookup fails or its body has no `dependencies` field.
Declares(q) ==
    IF registry[q].ok /\ registry[q].hasDependencies THEN registry[q].fields ELSE <<>>

\* The number of dependency paths of at most n edges that lead from package q
\* to package p in the registry (the empty path counts when q = p).
RECURSIVE PathsUpTo(_, _, _), PathsVia(_, _, _, _)
PathsUpTo(q, p, n) ==
    (IF q = p THEN 1 ELSE 0) + (IF n = 0 THEN 0 ELSE PathsVia(Declares(q), 1, p, n - 1))
PathsVia(entries, i, p, n) ==
    IF i > Len(entries) THEN 0
    ELSE PathsUpTo(entries[i], p, n) + PathsVia(entries, i + 1, p, n)

\* Paths of 1..n edges from the configured root to p.
PathsFromRoot(p, n) ==
    PathsUpTo(config.packageName, p, n) - (IF config.packageName = p THEN 1 ELSE 0)

\* Requests for p made by the recursive calls (the root call's own is left out).
DependencyRequests(p) ==
    Cardinality({ k \in DOMAIN requests :
                    /\ requests[k].url = Url(config.repositoryUrl, p)
                    /\ calls[requests[k].call].parent # 0 })

NodesNamed(nodes, p) == Cardinality({ path \in Paths(nodes) : NodeAt(nodes, path).name = p })

Occurrences(text, pat) ==
    Cardinality({ i \in 1..(Len(text) - Len(pat) + 1) :
                    SubSeq(text, i, i + Len(pat) - 1) = pat })

\* The edge lines of the text that point at p.
EdgeLinesTo(text, p) == Occurrences(text, "\" -> \"" \o p \o "\";\n")

\* The run has resolved its tree and, the tree not being empty, serialized it.
Serialized == Fulfilled /\ mainPc \in {"await_render", "done"} /\ dotGraph # ""

\* C16 as stated: a package reachable from the root along k paths within the
\* depth bound is requested k times, has k nodes in the result and k edge
\* lines in the text.
C16_OncePerPath ==
    Serialized =>
        \A p \in Names :
            LET k == PathsFromRoot(p, config.maxDepth) IN
            /\ DependencyRequests(p) = k
            /\ NodesNamed(outcome.value, p) = k
            /\ EdgeLinesTo(dotGraph, p) = k

\* C16, amended: the result has one node named p, and the text one edge line
\* to p, for every dependency path of 1..maxDepth edges from the root to p;
\* p is requested once for every such path of at most maxDepth - 1 edges, the
\* occurrences at level maxDepth being returned without a request.
C16_NoDeduplication ==
    /\ (Fulfilled /\ mainPc \in {"await_resolve", "await_render", "done"}) =>
        \A p \in Names :
            /\ NodesNamed(outcome.value, p) = PathsFromRoot(p, config.maxDepth)
            /\ DependencyRequests(p) = PathsFromRoot(p, config.maxDepth - 1)
    /\ Serialized =>
        \A p \in Names :
            EdgeLinesTo(dotGraph, p) = PathsFromRoot(p, config.maxDepth)

\* dep2 is reached along two paths, both short of the depth bound: two
\* requests, two nodes, two edge lines.
C16_Witness ==
    /\ Serialized
    /\ mainPc = "done"
    /\ PathsFromRoot("dep2", config.maxDepth) = 2
    /\ DependencyRequests("dep2") = 2
    /\ NodesNamed(outcome.value, "dep2") = 2
    /\ EdgeLinesTo(dotGraph, "dep2") = 2


(***************************************************************************)
(* C17: a failed conversion leaves the earlier artifacts                   *)
(***************************************************************************)

SvgFailed == \E k \in DOMAIN procs : procs[k].kind = "svg" /\ Failed(k)

PngFailed == \E k \in DOMAIN procs : procs[k].kind = "png" /\ Failed(k)

DotFileIntact ==
    /\ DotFilePath(gen.outputFilePath) \in DOMAIN fs
    /\ fs[DotFilePath(gen.outputFilePath)] = gen.dotString

WritesDone == SelectSeq(effects, LAMBDA e : e.op = "writeFileSync")

\* C17: after the vector conversion failed, the graph-source file still
\* holds the graph text, it was written once, and the vector command is the
\* only one ever started; after the raster conversion failed, the graph-source
\* file and the vector file are both still there, the graph source was
\* written once, and no command beyond the two was started.
C17_EarlierArtifactsKept ==
    /\ SvgFailed =>
          /\ DotFileIntact
          /\ Len(WritesDone) = 1
          /\ Len(ExecEffects) = 1
          /\ Len(procs) = 1
    /\ PngFailed =>
          /\ DotFileIntact
          /\ SvgFilePath(gen.outputFilePath) \in DOMAIN fs
          /\ Len(WritesDone) = 1
          /\ Len(ExecEffects) = 2
          /\ Len(procs) = 2

\* C17: once a conversion has failed, no step deletes or changes a file or
\* starts anything.
C17_NothingAfterFailure ==
    [][(SvgFailed \/ PngFailed) =>
          /\ effects' = effects
          /\ Len(procs') = Len(procs)
          /\ \A q \in DOMAIN fs : q \in DOMAIN fs' /\ fs'[q] = fs[q]]_vars

\* C17 as a whole.
C17_FailureHaltsRest == []C17_EarlierArtifactsKept /\ C17_NothingAfterFailure

\* The raster conversion has failed after a clean vector conversion.
C17_Witness ==
    /\ PngFailed
    /\ \E k \in DOMAIN procs : procs[k].kind = "svg" /\ Clean(k)
    /\ DotFileIntact
    /\ SvgFilePath(gen.outputFilePath) \in DOMAIN fs
    /\ Len(effects) = 3


(***************************************************************************)
(* C18: termination                                                        *)
(***************************************************************************)

\* The number of nodes of the full tree with `levels` levels and `branching`
\* children per node.
RECURSIVE FullTree(_, _)
FullTree(branching, levels) ==
    IF levels = 0 THEN 0 ELSE 1 + branching * FullTree(branching, levels - 1)

\* The registry has a dependency cycle that the root reaches.
RECURSIVE ReachesIn(_, _, _)
ReachesIn(q, p, n) ==
    /\ n > 0
    /\ \E i \in DOMAIN Declares(q) :
          Declares(q)[i] = p \/ ReachesIn(Declares(q)[i], p, n - 1)

OnCycle(p) == ReachesIn(p, p, Cardinality(Names))

RootReachesCycle ==
    \E p \in Names :
        /\ OnCycle(p)
        /\ p = RootName \/ ReachesIn(RootName, p, Cardinality(Names))

Returned == stack = <<>> /\ Fulfilled /\ calls[1].returned

\* C18: the recursion is never deeper than maxDepth + 1 calls and the
\* requests never outnumber the nodes of the full tree of maxDepth levels.
C18_Bounded ==
    /\ Len(stack) <= config.maxDepth + 1
    /\ \A c \in DOMAIN calls : calls[c].depth <= config.maxDepth + 1
    /\ Len(requests) <= FullTree(Min(MaxDeps, Cardinality(Names)), config.maxDepth)

\* C18: whatever the registry, cyclic ones included, getDependencies
\* eventually returns when every request is eventually answered, and it does
\* so within the depth and request bounds.
C18_EventuallyReturns == <>Returned /\ []C18_Bounded

\* A call over a registry with a cycle has returned after following the cycle
\* down to the depth bound.
C18_Witness ==
    /\ Returned
    /\ RootReachesCycle
    /\ config.maxDepth = MaxDepthBound + 1
    /\ Len(requests) = config.maxDepth
    /\ \E c \in DOMAIN calls : calls[c].depth = config.maxDepth + 1


====
